---- MODULE Spec2Model ----
(***************************************************************************)
(* A* path planning on a mixed-terrain grid (pathfinding.py).              *)
(*                                                                         *)
(* Numbers.  The program computes with floating point; the model computes  *)
(* with exact rationals, written as integers in fixed units:               *)
(*   - speeds and heights in tenths (0.7 -> 7, SLOPE_LIMIT 0.2 -> 2);      *)
(*   - costs in units of 1/CostUnit, CostUnit = 42, the least common       *)
(*     denominator of 1/0.7, 1/0.4 and 1/1.5;                              *)
(*   - a priority new_cost + sqrt(d2) is the pair [g |-> new_cost,         *)
(*     h2 |-> d2], ordered by the exact value g + CostUnit * sqrt(h2).     *)
(*                                                                         *)
(* Scale.  The module constants GRID_SIZE = 100 and TARGET = (50, 50) are  *)
(* scaled to GRID_SIZE = 4 and TARGET = (2, 2) (the grid's centre cell,    *)
(* as in the program), so that grids smaller than, equal to and larger     *)
(* than GRID_SIZE can be explored exhaustively.                            *)
(***************************************************************************)
EXTENDS Integers, Sequences, FiniteSets, TLC

VARIABLES
    grid,              \* the grid argument: cell coordinate -> cell record
    start,             \* the start argument
    target,            \* the target argument
    open_set,          \* the heap of (priority, coordinate) entries
    came_from,         \* dict coordinate -> predecessor
    cost_so_far,       \* dict coordinate -> best known cost
    current,           \* coordinate of the entry popped last (<<>> before)
    current_priority,  \* priority of the entry popped last
    k,                 \* index of the direction the for loop handles next
    pc,                \* control point of the program
    path,              \* reconstruct_path's list
    rcurrent,          \* reconstruct_path's current
    reads,             \* coordinates at which grid[nx, ny] was evaluated
    evaluated          \* evaluations of grid[nx, ny] since the last pop

vars == <<grid, start, target, open_set, came_from, cost_so_far, current,
          current_priority, k, pc, path, rcurrent, reads, evaluated>>

-----------------------------------------------------------------------------
(* Bounds of the explored inputs *)

MaxHeightSteps == 1     \* heights are 0 .. MaxHeightSteps slope limits

-----------------------------------------------------------------------------
(* Module constants, lines 6-14 *)

\* line 6: GRID_SIZE = 100, scaled
GRID_SIZE == 4

\* line 7: TARGET = (50, 50), the cell (GRID_SIZE / 2, GRID_SIZE / 2), scaled
TARGET == <<2, 2>>

\* line 10, in tenths
TERRAIN_SPEED == [sand |-> 7, mud |-> 4, asphalt |-> 15]

\* line 11, in tenths
SLOPE_LIMIT == 2

terrain_types == (0 :> "sand") @@ (1 :> "mud") @@ (2 :> "asphalt")

CostUnit == 6 * 7

-----------------------------------------------------------------------------
(* Helpers *)

Abs(n) == IF n < 0 THEN -n ELSE n

\* np.sqrt of a perfect square
Sqrt(n) == CHOOSE r \in 0..n : r * r = n

Dist2(a, b) == (b[1] - a[1]) * (b[1] - a[1]) + (b[2] - a[2]) * (b[2] - a[2])

Cells(n) == (0..(n - 1)) \X (0..(n - 1))

Size(g) == Cardinality({c \in DOMAIN g : c[2] = 0})

Reverse(s) == [j \in 1..Len(s) |-> s[Len(s) + 1 - j]]

\* the empty dict
EmptyDict == [c \in {} |-> 0]

-----------------------------------------------------------------------------
(* generate_grid: an n x n array of (coordinates, terrain, height).  The   *)
(* random draws are replaced by the seeds a, b, c (terrain) and d, e       *)
(* (height).                                                               *)

generate_grid(n, a, b, c, d, e) ==
    [cell \in Cells(n) |->
        [coordinates |-> cell,
         terrain     |-> (a * cell[1] + b * cell[2] + c) % 3,
         height      |-> SLOPE_LIMIT *
                           ((d * cell[1] + e * cell[2]) % (MaxHeightSteps + 1))]]

-----------------------------------------------------------------------------
(* calculate_cost, in units of 1/CostUnit *)

terrain_cost(cell) == (10 * CostUnit) \div TERRAIN_SPEED[terrain_types[cell.terrain]]

slope_cost(cur, neighbor) == 1 + Abs(neighbor.height - cur.height) \div SLOPE_LIMIT

distance_cost(cur, neighbor) == Sqrt(Dist2(cur.coordinates, neighbor.coordinates))

calculate_cost(cur, neighbor) ==
    distance_cost(cur, neighbor) * terrain_cost(neighbor) * slope_cost(cur, neighbor)

-----------------------------------------------------------------------------
(* Order of heap entries: Python compares the tuples (priority, (x, y))    *)

\* d + sqrt(t) < sqrt(s), for integers d and naturals s, t
RootLess(d, t, s) ==
    IF d >= 0
      THEN LET r == s - t - d * d
           IN  r > 0 /\ r * r > 4 * d * d * t
      ELSE LET q == t - s - d * d
           IN  q < 0 \/ q * q < 4 * d * d * s

\* p.g + CostUnit * sqrt(p.h2) < q.g + CostUnit * sqrt(q.h2)
PriorityLess(p, q) ==
    IF p.h2 = q.h2
      THEN p.g < q.g
      ELSE RootLess(p.g - q.g, CostUnit * CostUnit * p.h2, CostUnit * CostUnit * q.h2)

PriorityEq(p, q) == ~PriorityLess(p, q) /\ ~PriorityLess(q, p)

CoordLess(a, b) == a[1] < b[1] \/ (a[1] = b[1] /\ a[2] < b[2])

EntryLess(e, f) ==
    \/ PriorityLess(e.priority, f.priority)
    \/ PriorityEq(e.priority, f.priority) /\ CoordLess(e.coord, f.coord)

\* heapq.heappop: the least entry
HeapMin(h) == CHOOSE e \in h : \A f \in h \ {e} : EntryLess(e, f)

\* line 71
Heuristic(n) == Dist2(n, TARGET)

\* line 65
InBounds(nx, ny) == 0 <= nx /\ nx < GRID_SIZE /\ 0 <= ny /\ ny < GRID_SIZE

\* the comparison of line 69 turned round
ImprovesFlipped(n, new_cost, costs) == n \notin DOMAIN costs \/ new_cost > costs[n]

\* the comparison of line 69 made non-strict
ImprovesOrEqual(n, new_cost, costs) == n \notin DOMAIN costs \/ new_cost <= costs[n]

\* line 69
Improves(n, new_cost, costs) == n \notin DOMAIN costs \/ new_cost < costs[n]

\* line 57 comparing with the module constant
IsTargetConstant(c, t) == c = TARGET

\* line 57
IsTarget(c, t) == c = t

\* line 73 with key and value exchanged
RecordPredecessorSwapped(cf, n, cur) == (cur :> n) @@ cf

\* line 73
RecordPredecessor(cf, n, cur) == (n :> cur) @@ cf

\* line 62
Directions == << <<-1, 0>>, <<1, 0>>, <<0, -1>>, <<0, 1>> >>

-----------------------------------------------------------------------------
(* Inputs *)

Sizes == {GRID_SIZE - 1, GRID_SIZE, GRID_SIZE + 1}

TerrainSeeds == (0..1) \X (0..1) \X (0..2)

HeightSeeds == {<<0, 0>>, <<1, 2>>}

Grids ==
    {generate_grid(n, t[1], t[2], t[3], h[1], h[2]) :
        n \in Sizes, t \in TerrainSeeds, h \in HeightSeeds}

Init ==
    /\ grid \in Grids
    /\ start \in DOMAIN grid
    /\ target \in DOMAIN grid
    /\ open_set = {[priority |-> [g |-> 0, h2 |-> 0], coord |-> start]}
    /\ came_from = EmptyDict
    /\ cost_so_far = (start :> 0)
    /\ current = <<>>
    /\ current_priority = [g |-> 0, h2 |-> 0]
    /\ k = 1
    /\ pc = "while"
    /\ path = <<>>
    /\ rcurrent = <<>>
    /\ reads = {}
    /\ evaluated = 0

-----------------------------------------------------------------------------
(* find_fastest_path *)

\* lines 54-60: pop the least entry; leave the loop when it is target
Pop ==
    /\ pc = "while"
    /\ open_set # {}
    /\ LET e == HeapMin(open_set)
       IN  /\ open_set' = open_set \ {e}
           /\ current' = e.coord
           /\ current_priority' = e.priority
           /\ pc' = IF IsTarget(e.coord, target) THEN "returned" ELSE "for"
    /\ k' = 1
    /\ evaluated' = 0
    /\ UNCHANGED <<grid, start, target, came_from, cost_so_far, path, rcurrent, reads>>

\* line 54 with an empty heap, line 75
Exhausted ==
    /\ pc = "while"
    /\ open_set = {}
    /\ pc' = "returned"
    /\ UNCHANGED <<grid, start, target, open_set, came_from, cost_so_far, current,
                   current_priority, k, path, rcurrent, reads, evaluated>>

NextK == IF k < Len(Directions) THEN k + 1 ELSE 1

NextPc == IF k < Len(Directions) THEN "for" ELSE "while"

\* lines 62-73: one iteration of the for loop
Neighbor ==
    /\ pc = "for"
    /\ LET nx == current[1] + Directions[k][1]
           ny == current[2] + Directions[k][2]
           n  == <<nx, ny>>
       IN  IF ~InBounds(nx, ny)
             THEN /\ k' = NextK
                  /\ pc' = NextPc
                  /\ UNCHANGED <<open_set, came_from, cost_so_far, reads, evaluated>>
           ELSE IF n \notin DOMAIN grid
             THEN \* grid[nx, ny] raises IndexError
                  /\ reads' = reads \cup {n}
                  /\ evaluated' = evaluated + 1
                  /\ pc' = "IndexError"
                  /\ UNCHANGED <<open_set, came_from, cost_so_far, k>>
           ELSE LET new_cost == cost_so_far[current] + calculate_cost(grid[current], grid[n])
                IN  /\ reads' = reads \cup {n, current}
                    /\ evaluated' = evaluated + 1
                    /\ k' = NextK
                    /\ pc' = NextPc
                    /\ IF Improves(n, new_cost, cost_so_far)
                         THEN /\ cost_so_far' = (n :> new_cost) @@ cost_so_far
                              /\ open_set' = open_set \cup
                                   {[priority |-> [g |-> new_cost, h2 |-> Heuristic(n)],
                                     coord |-> n]}
                              /\ came_from' = RecordPredecessor(came_from, n, current)
                         ELSE UNCHANGED <<open_set, came_from, cost_so_far>>
    /\ UNCHANGED <<grid, start, target, current, current_priority, path, rcurrent>>

-----------------------------------------------------------------------------
(* reconstruct_path *)

\* lines 79-80
Reconstruct ==
    /\ pc = "returned"
    /\ rcurrent' = target
    /\ path' = <<>>
    /\ pc' = "walk"
    /\ UNCHANGED <<grid, start, target, open_set, came_from, cost_so_far, current,
                   current_priority, k, reads, evaluated>>

\* lines 81-86
Walk ==
    /\ pc = "walk"
    /\ IF rcurrent # start
         THEN /\ path' = Append(path, rcurrent)
              /\ IF rcurrent \in DOMAIN came_from
                   THEN /\ rcurrent' = came_from[rcurrent]
                        /\ pc' = "walk"
                   ELSE \* came_from[current] raises KeyError
                        /\ pc' = "KeyError"
                        /\ UNCHANGED rcurrent
         ELSE /\ path' = Reverse(Append(path, start))
              /\ pc' = "done"
              /\ UNCHANGED rcurrent
    /\ UNCHANGED <<grid, start, target, open_set, came_from, cost_so_far, current,
                   current_priority, k, reads, evaluated>>

Next == Pop \/ Exhausted \/ Neighbor \/ Reconstruct \/ Walk

Spec == Init /\ [][Next]_vars

FairSpec == Spec /\ WF_vars(Next)

-----------------------------------------------------------------------------
(* Vocabulary of the properties *)

N == Size(grid)

Adjacent(a, b) == Dist2(a, b) = 1

Coords(h) == {e.coord : e \in h}

\* find_fastest_path has left its loop by line 58 or line 75
SearchEnded == pc \in {"returned", "walk", "done", "KeyError"}

\* the loop ended at the break of line 58
TargetPopped == SearchEnded /\ current = target

\* the loop ended with an empty heap, target never popped
FrontierExhausted == SearchEnded /\ current # target

\* the entry popped last was pushed with a cost above the recorded one
Stale == current \in DOMAIN cost_so_far /\ current_priority.g > cost_so_far[current]

\* no cell of the grid is faster than the base speed (multiplier <= 1)
SlowTerrainOnly ==
    \A c \in DOMAIN grid : TERRAIN_SPEED[terrain_types[grid[c].terrain]] <= 10

Min(S) == CHOOSE m \in S : \A x \in S : m <= x

\* one round of relaxation over all edges of the grid; d maps the cells
\* reached so far to the least cost found
RelaxAll(g, d) ==
    LET reached == DOMAIN d \cup {c \in DOMAIN g : \E p \in DOMAIN d : Adjacent(p, c)}
    IN  [c \in reached |->
            Min((IF c \in DOMAIN d THEN {d[c]} ELSE {}) \cup
                {d[p] + calculate_cost(g[p], g[c]) :
                    p \in {q \in DOMAIN d : Adjacent(q, c)}})]

RECURSIVE Relaxed(_, _, _)
Relaxed(g, d, rounds) ==
    LET nd == RelaxAll(g, d)
    IN  IF rounds = 0 \/ nd = d THEN d ELSE Relaxed(g, nd, rounds - 1)

\* least total cost over the 4-directional paths of g from s to t
MinCost(g, s, t) ==
    Relaxed(g, (s :> 0), Cardinality(DOMAIN g) - 1)[t]

RECURSIVE PathCost(_, _)
PathCost(g, p) ==
    IF Len(p) < 2 THEN 0
    ELSE calculate_cost(g[p[1]], g[p[2]]) + PathCost(g, Tail(p))

\* p runs from s to t inside g by axis-aligned unit steps
IsRoute(g, p, s, t) ==
    /\ Len(p) >= 1
    /\ p[1] = s
    /\ p[Len(p)] = t
    /\ \A j \in 1..Len(p) : p[j] \in DOMAIN g
    /\ \A j \in 1..(Len(p) - 1) : Adjacent(p[j], p[j + 1])

\* the cells met when following came_from from n, start excluded; fuel bounds the walk
RECURSIVE Chain(_, _)
Chain(n, fuel) ==
    IF n = start \/ n \notin DOMAIN came_from \/ fuel = 0 THEN <<>>
    ELSE <<n>> \o Chain(came_from[n], fuel - 1)

\* following came_from from n reaches start within as many steps as came_from
\* has keys, hence without meeting a cell twice (a repeated cell would repeat
\* for ever)
ReachesStart(n) ==
    LET limit == Cardinality(DOMAIN came_from)
        ch    == Chain(n, limit + 1)
    IN  /\ Len(ch) <= limit
        /\ came_from[ch[Len(ch)]] = start

-----------------------------------------------------------------------------
(* Claims *)

\* C1  Optimality: on a grid without fast terrain, the search ends with the
\* least path cost recorded for target, and the reconstructed path has
\* that cost.
C1_Optimality ==
    SlowTerrainOnly =>
        /\ pc \notin {"IndexError", "KeyError"}
        /\ SearchEnded =>
              /\ target \in DOMAIN cost_so_far
              /\ cost_so_far[target] = MinCost(grid, start, target)
        /\ pc = "done" => PathCost(grid, path) = MinCost(grid, start, target)

\* The same on grids of exactly GRID_SIZE x GRID_SIZE cells, where every read
\* of line 66 is inside the grid.
OptimalAtGridSize == N = GRID_SIZE => C1_Optimality

\* C2  End-to-end example: on the 3x3 all-asphalt flat grid, from (0,0) to
\* (2,2), the program reaches its end with a 5-cell route of cost
\* 4 * (1/1.5).
C2_Example ==
    (grid = generate_grid(3, 0, 0, 2, 0, 0) /\ start = <<0, 0>> /\ target = <<2, 2>>) =>
        /\ pc \notin {"IndexError", "KeyError"}
        /\ pc = "done" =>
              /\ Len(path) = 5
              /\ IsRoute(grid, path, start, target)
              /\ PathCost(grid, path) = (4 * 10 * CostUnit) \div TERRAIN_SPEED.asphalt
              /\ cost_so_far[target] = PathCost(grid, path)

\* C3  Self-path: with start = target the search stops at the first pop,
\* evaluates no neighbour, leaves cost_so_far = {start: 0} and came_from
\* empty, and the path is [start].
C3_SelfPath ==
    start = target =>
        /\ pc \in {"while", "returned", "walk", "done"}
        /\ reads = {}
        /\ cost_so_far = (start :> 0)
        /\ came_from = EmptyDict
        /\ pc # "while" => (current = start /\ open_set = {})
        /\ pc = "done" => path = <<start>>

\* C3 witness: a self-path query has run to its end
C3_Witness == start = target /\ pc = "done" /\ path = <<start>>

\* C4  No-path reporting: when the frontier is exhausted without target having
\* been popped, reconstruct_path reports the missing path; it does not
\* return a route and does not fail with the raw KeyError of a dict lookup.
C4_NoPathReported == FrontierExhausted => pc \notin {"done", "KeyError"}

\* C5  Termination: the expansion loop is left only because target was popped
\* or because the frontier is empty.
C5_LoopStops ==
    pc \notin {"while", "for"} => (TargetPopped \/ (FrontierExhausted /\ open_set = {}))

\* Termination alone (under FairSpec): the expansion loop is always left, be
\* it by the break, by the empty heap or by the IndexError.
LoopLeft == <>(pc \notin {"while", "for"})

\* C6  Monotonic cost map: no step removes an entry of cost_so_far or raises
\* its value, and cost_so_far[start] is 0 throughout.
C6_Monotonic ==
    /\ cost_so_far[start] = 0
    /\ [][/\ \A c \in DOMAIN cost_so_far :
               c \in DOMAIN cost_so_far' /\ cost_so_far'[c] <= cost_so_far[c]
          /\ cost_so_far'[start] = 0]_vars

\* C6 witness: a cost was lowered (the heap still holds the entry pushed
\* with the higher cost)
C6_Witness == \E e \in open_set : e.priority.g > cost_so_far[e.coord]

\* C7  In-bounds expansion: every coordinate read from the grid, recorded in
\* cost_so_far or came_from, or pushed on the frontier is a cell of the
\* N x N grid.
C7_InBounds ==
    (reads \cup DOMAIN cost_so_far \cup DOMAIN came_from \cup Coords(open_set))
        \subseteq Cells(N)

\* C8  Heuristic targets the query: every entry pushed for a neighbour has the
\* priority cost + distance to the target argument.
C8_HeuristicToTarget ==
    \A e \in open_set :
        e.coord # start => e.priority.h2 = Dist2(e.coord, target)

\* C9 (as stated)  Lazy stale-entry discard: a popped entry whose coordinate
\* has a lower recorded cost is dropped with no neighbour evaluated.
C9_StaleDiscarded == Stale => evaluated = 0

\* C9 (amended)  A popped stale entry is expanded again, but that expansion
\* changes neither cost_so_far nor came_from and pushes nothing.
C9_StaleExpansionIdle ==
    [][(pc = "for" /\ Stale) =>
          UNCHANGED <<cost_so_far, came_from, open_set>>]_vars

\* C9 witness: a stale entry has been popped and all its directions handled
C9_Witness == Stale /\ pc = "while" /\ evaluated >= 2 /\ open_set # {}

\* C10  Predecessor chain: start is no key of came_from; every key has an
\* adjacent predecessor whose cost plus the edge cost does not exceed the
\* key's cost; following came_from from a key reaches start without meeting
\* a cell twice; and once target was popped reconstruct_path walks that
\* chain without a KeyError and returns a route from start to target.
C10_PredecessorChain ==
    /\ start \notin DOMAIN came_from
    /\ \A n \in DOMAIN came_from :
          LET p == came_from[n]
          IN  /\ Adjacent(p, n)
              /\ p \in DOMAIN cost_so_far
              /\ n \in DOMAIN cost_so_far
              /\ cost_so_far[n] >= cost_so_far[p] + calculate_cost(grid[p], grid[n])
              /\ ReachesStart(n)
    /\ TargetPopped =>
          /\ pc # "KeyError"
          /\ pc = "walk" => (rcurrent = start \/ rcurrent \in DOMAIN came_from)
          /\ pc = "done" => IsRoute(grid, path, start, target)

\* C10 witness: target was popped and a route of at least three steps returned
C10_Witness == TargetPopped /\ pc = "done" /\ Len(path) >= 4

====
